---- MODULE Spec2Model ----
(***************************************************************************)
(* Model of the invoice application (src/app.py): the relational store     *)
(* (Invoice and InvoiceItem tables), the login session, the create / edit  *)
(* / delete request handlers and the two exporters (spreadsheet and PDF).  *)
(*                                                                         *)
(* Text is a sequence of one-character strings, so that strip(), int()     *)
(* and float() are computed on the characters.  A Python float is a        *)
(* fixed-point integer counting 1/Scale units; the inputs are chosen so    *)
(* that every product computed here is exact in that representation.       *)
(* date_created is not modelled: no handler branches on it.                *)
(***************************************************************************)
EXTENDS Integers, Sequences, FiniteSets, TLC

VARIABLES
    invoices,   \* Invoice table: id -> [client_name, tax_rate, discount_rate]
    items,      \* InvoiceItem table in rowid order: [invoice_id, name, qty, price]
    session,    \* the browser session: a function from session keys to values
    request,    \* the request being answered (NoRequest between requests)
    response,   \* the response to that request
    before,     \* the committed store as it was when that request arrived
    dbMode,     \* how the configured database isolates concurrent transactions
    tx,         \* the transaction of each concurrent editor
    writer      \* holder of the database write lock (0: nobody)

vars == <<invoices, items, session, request, response, before, dbMode, tx, writer>>

-----------------------------------------------------------------------------
(* Bounds of the model *)

MaxInvoiceId == 2
MaxRows == 2

-----------------------------------------------------------------------------
(* Text and number conversions *)

Scale == 10000

Whitespace == {" "}
Digits == {"0", "1", "2", "3", "4", "5", "6", "7", "8", "9"}

DigitVal(c) ==
    CASE c = "0" -> 0 [] c = "1" -> 1 [] c = "2" -> 2 [] c = "3" -> 3
      [] c = "4" -> 4 [] c = "5" -> 5 [] c = "6" -> 6 [] c = "7" -> 7
      [] c = "8" -> 8 [] c = "9" -> 9

Min(a, b) == IF a <= b THEN a ELSE b

RECURSIVE LStrip(_)
LStrip(s) == IF s # <<>> /\ Head(s) \in Whitespace THEN LStrip(Tail(s)) ELSE s

RECURSIVE RStrip(_)
RStrip(s) ==
    IF s # <<>> /\ s[Len(s)] \in Whitespace THEN RStrip(SubSeq(s, 1, Len(s) - 1)) ELSE s

\* str.strip()
Strip(s) == RStrip(LStrip(s))

AllDigits(s) == \A i \in 1..Len(s) : s[i] \in Digits

RECURSIVE DigitsVal(_)
DigitsVal(s) ==
    IF s = <<>> THEN 0 ELSE 10 * DigitsVal(SubSeq(s, 1, Len(s) - 1)) + DigitVal(s[Len(s)])

RECURSIVE Pow10(_)
Pow10(n) == IF n = 0 THEN 1 ELSE 10 * Pow10(n - 1)

Signed(t) == t # <<>> /\ t[1] \in {"+", "-"}
Unsigned(t) == IF Signed(t) THEN Tail(t) ELSE t
SignOf(t) == IF t # <<>> /\ t[1] = "-" THEN -1 ELSE 1

\* int(text): optional blanks, optional sign, decimal digits; anything else raises
\* ValueError (ok = FALSE).
ParseInt(s) ==
    LET t == Strip(s)
        d == Unsigned(t)
        ok == d # <<>> /\ AllDigits(d)
    IN  [ok |-> ok, val |-> IF ok THEN SignOf(t) * DigitsVal(d) ELSE 0]

DotAt(d) == IF \E i \in 1..Len(d) : d[i] = "."
            THEN CHOOSE i \in 1..Len(d) : d[i] = "." /\ \A j \in 1..(i - 1) : d[j] # "."
            ELSE 0

\* float(text): optional blanks, optional sign, digits with at most one point and
\* at most four fraction digits (exponents, inf and nan are not drawn as inputs).
ParseFloat(s) ==
    LET t == Strip(s)
        d == Unsigned(t)
        p == DotAt(d)
        ip == IF p = 0 THEN d ELSE SubSeq(d, 1, p - 1)
        fp == IF p = 0 THEN <<>> ELSE SubSeq(d, p + 1, Len(d))
        ok == /\ AllDigits(ip) /\ AllDigits(fp)
              /\ (ip # <<>> \/ fp # <<>>)
              /\ Pow10(Len(fp)) <= Scale
    IN  [ok |-> ok,
         val |-> IF ok
                 THEN SignOf(t) * (DigitsVal(ip) * Scale
                                    + DigitsVal(fp) * (Scale \div Pow10(Len(fp))))
                 ELSE 0]

\* float * float and float / 100 on the fixed-point representation
FMul(a, b) == (a * b) \div Scale
FDiv100(a) == a \div 100
\* int * float
IMul(n, a) == n * a

\* f"{x:.2f}": the value rounded to hundredths (half to even), as a count of
\* hundredths
Fmt2(x) ==
    LET unit == Scale \div 100
        q == x \div unit
        r == x % unit
    IN  IF 2 * r > unit \/ (2 * r = unit /\ q % 2 = 1) THEN q + 1 ELSE q

-----------------------------------------------------------------------------
(* Program constants and the rows of the User table *)

COMPANY == [name |-> "HITS Hub Innovative Software Company",
            address |-> "Kano, Nigeria",
            phone |-> "+2348065395103"]

\* bcrypt: a one-way tag on the password text
generate_password_hash(pw) == <<"bcrypt", pw>>
check_password_hash(h, pw) == h = generate_password_hash(pw)

DefaultUsername == <<"I", "h">>
DefaultPassword == <<"H", "4">>

User == {[id |-> 1, username |-> DefaultUsername,
          password_hash |-> generate_password_hash(DefaultPassword)]}

-----------------------------------------------------------------------------
(* Requests: the inputs the handlers are driven with *)

NoRequest == [op |-> "none"]
NoResponse == [status |-> 0]
NoStore == [invoices |-> <<>>, items |-> <<>>]

\* A form field is the list of values submitted under that key (empty: absent).
HeaderInputs ==
    { [client_name |-> << <<" ", "A">> >>, tax_rate |-> <<>>, discount_rate |-> <<>>],
      [client_name |-> << <<"B", " ">> >>, tax_rate |-> << <<"1", "0">> >>,
                                           discount_rate |-> << <<" ", "5">> >>],
      [client_name |-> << <<"A">> >>, tax_rate |-> << <<"x">> >>,
                                      discount_rate |-> << <<"5">> >>],
      [client_name |-> << <<"B">> >>, tax_rate |-> << <<"1", "0">> >>,
                                      discount_rate |-> << <<"1", "."  , ".">> >>] }

\* One submitted row: two well-formed rows, a row whose name is blank after
\* trimming (with qty and price that do not parse), a row with a malformed
\* qty and a row with a malformed price.
RowInputs ==
    { [name |-> <<" ", "W">>, qty |-> <<"2">>, price |-> <<"5", ".", "0">>],
      [name |-> <<"G", " ">>, qty |-> <<" ", "1">>, price |-> <<"9", ".", "9", "9">>],
      [name |-> <<" ">>, qty |-> <<"x">>, price |-> <<"y">>],
      [name |-> <<"W">>, qty |-> <<"2", ".", "5">>, price |-> <<"5", ".", "0">>],
      [name |-> <<"G">>, qty |-> <<"1">>, price |-> <<"1", "e">>] }

RowSeqs == UNION {[1..n -> RowInputs] : n \in 0..MaxRows}

\* The three parallel arrays need not have the same length: one of them may be
\* one entry short.
Cuts == {"none", "item_name[]", "item_qty[]", "item_price[]"}

CutLen(rows, cut, key) == IF cut = key /\ Len(rows) > 0 THEN Len(rows) - 1 ELSE Len(rows)

MakeForm(h, rows, cut) ==
    [client_name |-> h.client_name,
     tax_rate |-> h.tax_rate,
     discount_rate |-> h.discount_rate,
     item_name |-> [i \in 1..CutLen(rows, cut, "item_name[]") |-> rows[i].name],
     item_qty |-> [i \in 1..CutLen(rows, cut, "item_qty[]") |-> rows[i].qty],
     item_price |-> [i \in 1..CutLen(rows, cut, "item_price[]") |-> rows[i].price]]

Forms == {MakeForm(h, rows, cut) : h \in HeaderInputs, rows \in RowSeqs, cut \in Cuts}

InvoiceIds == 1..MaxInvoiceId

Credentials == { [username |-> <<" ", "I", "h">>, password |-> <<"H", "4", " ">>],
                 [username |-> <<"I", "h">>, password |-> <<"h", "4">>],
                 [username |-> <<"J">>, password |-> <<"H", "4">>] }

-----------------------------------------------------------------------------
(* The store and the session *)

NoSession == [k \in {} |-> 0]

\* Invoice.query.get_or_404
Exists(invs, id) == id \in DOMAIN invs

\* invoice.items: the rows of the relationship, in rowid order
ItemsOf(itms, id) == SelectSeq(itms, LAMBDA r : r.invoice_id = id)

\* InvoiceItem.query.delete() without the filter: every invoice's rows go
DeleteEveryItem(itms, id) == <<>>

\* InvoiceItem.query.filter_by(invoice_id=id).delete()
DeleteItems(itms, id) == SelectSeq(itms, LAMBDA r : r.invoice_id # id)

\* db.session.add(invoice) on a table keyed by id
AddInvoice(invs, id, row) == [i \in DOMAIN invs \cup {id} |-> IF i = id THEN row ELSE invs[i]]

\* The primary key the database gives a new invoice: above every key in use
\* (SQLite takes the next one, a sequence may skip).
FreshIds(invs) == {id \in InvoiceIds : \A i \in DOMAIN invs : id > i}

\* request.form.get(key, default)
FormGet(field, default) == IF field = <<>> THEN default ELSE field[1]

\* float(request.form.get(key, 0))
FloatField(field) == IF field = <<>> THEN [ok |-> TRUE, val |-> 0] ELSE ParseFloat(field[1])

\* zip(names, qtys, prices)
Zip(names, qtys, prices) ==
    [i \in 1..Min(Len(names), Min(Len(qtys), Len(prices))) |->
        <<names[i], qtys[i], prices[i]>>]

\* the loop with int(qty) and float(price) evaluated before the name is looked
\* at: a blank-named row with a malformed qty or price fails the request
RECURSIVE AddItemsParsingBlankRows(_, _, _, _)
AddItemsParsingBlankRows(id, rows, i, acc) ==
    IF i > Len(rows) THEN [ok |-> TRUE, items |-> acc]
    ELSE LET name == rows[i][1]
             qty == ParseInt(rows[i][2])
             price == ParseFloat(rows[i][3])
         IN  IF ~(qty.ok /\ price.ok)
             THEN [ok |-> FALSE, items |-> acc]
             ELSE IF Strip(name) # <<>>
             THEN AddItemsParsingBlankRows(id, rows, i + 1,
                      Append(acc, [invoice_id |-> id, name |-> Strip(name),
                                   qty |-> qty.val, price |-> price.val]))
             ELSE AddItemsParsingBlankRows(id, rows, i + 1, acc)

\* for name, qty, price in zip(...): if name.strip(): session.add(InvoiceItem(...)).
\* ok = FALSE when int(qty) or float(price) raised; items are the rows added to
\* the session up to then.
RECURSIVE AddItems(_, _, _, _)
AddItems(id, rows, i, acc) ==
    IF i > Len(rows) THEN [ok |-> TRUE, items |-> acc]
    ELSE LET name == rows[i][1]
             qty == ParseInt(rows[i][2])
             price == ParseFloat(rows[i][3])
         IN  IF Strip(name) # <<>>
             THEN IF qty.ok /\ price.ok
                  THEN AddItems(id, rows, i + 1,
                                Append(acc, [invoice_id |-> id, name |-> Strip(name),
                                             qty |-> qty.val, price |-> price.val]))
                  ELSE [ok |-> FALSE, items |-> acc]
             ELSE AddItems(id, rows, i + 1, acc)

Redirect(to) == [status |-> 302, location |-> to]
NotFound == [status |-> 404]
\* an exception that no handler catches
ServerError == [status |-> 500]

Result(invs, itms, resp) == [invoices |-> invs, items |-> itms, response |-> resp]

-----------------------------------------------------------------------------
(* Handlers *)

\* a route without the session check
login_not_required(sess) == TRUE

login_required(sess) == "user_id" \in DOMAIN sess

\* the discount added to the total instead of taken off it
calculate_invoice_totals_discount_added(invs, itms, id) ==
    LET its == ItemsOf(itms, id)
        Sum[n \in 0..Len(its)] ==
            IF n = 0 THEN 0 ELSE Sum[n - 1] + IMul(its[n].qty, its[n].price)
        subtotal == Sum[Len(its)]
        tax_amount == FMul(subtotal, FDiv100(invs[id].tax_rate))
        discount_amount == FMul(subtotal, FDiv100(invs[id].discount_rate))
    IN  <<subtotal, tax_amount, discount_amount, subtotal + tax_amount + discount_amount>>

calculate_invoice_totals(invs, itms, id) ==
    LET its == ItemsOf(itms, id)
        Sum[n \in 0..Len(its)] ==
            IF n = 0 THEN 0 ELSE Sum[n - 1] + IMul(its[n].qty, its[n].price)
        subtotal == Sum[Len(its)]
        tax_amount == FMul(subtotal, FDiv100(invs[id].tax_rate))
        discount_amount == FMul(subtotal, FDiv100(invs[id].discount_rate))
        total == subtotal + tax_amount - discount_amount
    IN  <<subtotal, tax_amount, discount_amount, total>>

new_invoice(form, id) ==
    LET client_name == Strip(FormGet(form.client_name, <<>>))
        tax_rate == FloatField(form.tax_rate)
        discount_rate == FloatField(form.discount_rate)
        \* db.session.add(invoice); db.session.commit()
        committed == AddInvoice(invoices, id,
                                [client_name |-> client_name, tax_rate |-> tax_rate.val,
                                 discount_rate |-> discount_rate.val])
        added == AddItems(id, Zip(form.item_name, form.item_qty, form.item_price), 1, <<>>)
    IN  IF ~tax_rate.ok \/ ~discount_rate.ok
        THEN Result(invoices, items, ServerError)
        ELSE IF ~added.ok
        THEN \* the rows added to the session are rolled back, the invoice stays
             Result(committed, items, ServerError)
        ELSE Result(committed, items \o added.items, Redirect("index"))

\* a commit right after the bulk delete, as new_invoice commits the invoice
\* before it reads the rows: a failing row then leaves the invoice without rows
edit_invoice_commit_after_delete(invoice_id, form) ==
    LET client_name == Strip(FormGet(form.client_name, <<>>))
        tax_rate == FloatField(form.tax_rate)
        discount_rate == FloatField(form.discount_rate)
        dirty == [invoices EXCEPT ![invoice_id] =
                     [client_name |-> client_name, tax_rate |-> tax_rate.val,
                      discount_rate |-> discount_rate.val]]
        remaining == DeleteItems(items, invoice_id)
        added == AddItems(invoice_id,
                          Zip(form.item_name, form.item_qty, form.item_price), 1, <<>>)
    IN  IF ~Exists(invoices, invoice_id)
        THEN Result(invoices, items, NotFound)
        ELSE IF ~tax_rate.ok \/ ~discount_rate.ok
        THEN Result(invoices, items, ServerError)
        ELSE IF ~added.ok
        THEN Result(dirty, remaining, ServerError)
        ELSE Result(dirty, remaining \o added.items, Redirect("index"))

edit_invoice(invoice_id, form) ==
    LET client_name == Strip(FormGet(form.client_name, <<>>))
        tax_rate == FloatField(form.tax_rate)
        discount_rate == FloatField(form.discount_rate)
        dirty == [invoices EXCEPT ![invoice_id] =
                     [client_name |-> client_name, tax_rate |-> tax_rate.val,
                      discount_rate |-> discount_rate.val]]
        remaining == DeleteItems(items, invoice_id)
        added == AddItems(invoice_id,
                          Zip(form.item_name, form.item_qty, form.item_price), 1, <<>>)
    IN  IF ~Exists(invoices, invoice_id)
        THEN Result(invoices, items, NotFound)
        ELSE IF ~tax_rate.ok \/ ~discount_rate.ok \/ ~added.ok
        THEN \* nothing was committed: the session is rolled back as the request ends
             Result(invoices, items, ServerError)
        ELSE Result(dirty, remaining \o added.items, Redirect("index"))

\* the relationship without cascade: the invoice row goes, its items stay
delete_invoice_without_cascade(invoice_id) ==
    IF ~Exists(invoices, invoice_id)
    THEN Result(invoices, items, NotFound)
    ELSE Result([i \in DOMAIN invoices \ {invoice_id} |-> invoices[i]],
                items, Redirect("index"))

delete_invoice(invoice_id) ==
    IF ~Exists(invoices, invoice_id)
    THEN Result(invoices, items, NotFound)
    ELSE \* cascade="all, delete-orphan": the invoice's items go with it
         Result([i \in DOMAIN invoices \ {invoice_id} |-> invoices[i]],
                DeleteItems(items, invoice_id), Redirect("index"))

-----------------------------------------------------------------------------
(* Exporters *)

\* an append that leaves no row for an empty list
ws_append_skips_empty(ws, row) == IF row = <<>> THEN ws ELSE Append(ws, row)

\* ws.append(row) on the sheet's rows
ws_append(ws, row) == Append(ws, row)

RECURSIVE AppendAll(_, _)
AppendAll(ws, rows) ==
    IF rows = <<>> THEN ws ELSE AppendAll(ws_append(ws, Head(rows)), Tail(rows))

\* The rows export_excel appends, in order.
excel_rows(invoice_id) ==
    LET its == ItemsOf(items, invoice_id)
        invoice == invoices[invoice_id]
        t == calculate_invoice_totals(invoices, items, invoice_id)
        head == << <<COMPANY.name>>, <<COMPANY.address>>, <<COMPANY.phone>>, <<>>,
                   <<"Invoice #", invoice_id, "Date: ">>, <<>>,
                   <<"Item", "Qty", "Price", "Subtotal">> >>
        body == [i \in 1..Len(its) |->
                    <<its[i].name, its[i].qty, its[i].price,
                      IMul(its[i].qty, its[i].price)>>]
        foot == << <<>>,
                   <<"", "", "Subtotal", t[1]>>,
                   <<"", "", "Tax", invoice.tax_rate, t[2]>>,
                   <<"", "", "Discount", invoice.discount_rate, t[3]>>,
                   <<"", "", "Total", t[4]>> >>
    IN  AppendAll(AppendAll(AppendAll(<<>>, head), body), foot)

export_excel(invoice_id) ==
    IF ~Exists(invoices, invoice_id)
    THEN Result(invoices, items, NotFound)
    ELSE Result(invoices, items,
                [status |-> 200,
                 download_name |-> <<"invoice_", invoice_id, ".xlsx">>,
                 mimetype |->
                   "application/vnd.openxmlformats-officedocument.spreadsheetml.sheet",
                 sheet |-> excel_rows(invoice_id)])

page_width == 420
line_height == 18
top_margin == 30
bottom_margin == 40
header_height == 120
totals_height == 90

\* a page of fixed height, whatever the number of rows
pdf_fixed_page_height(n) ==
    top_margin + header_height + totals_height + bottom_margin

pdf_page_height(n) ==
    top_margin + header_height + n * line_height + totals_height + bottom_margin

\* c.drawString / c.drawRightString: one drawn text at (x, y)
Draw(x, y, text) == [x |-> x, y |-> y, text |-> text]

\* The texts export_pdf draws, in order, each with the y it is drawn at.
pdf_draws(invoice_id) ==
    LET its == ItemsOf(items, invoice_id)
        invoice == invoices[invoice_id]
        n == Len(its)
        page_height == pdf_page_height(n)
        yName == page_height - top_margin
        yAddress == yName - 20
        yPhone == yAddress - 14
        yNumber == yPhone - 25
        yDate == yNumber - 16
        yHeader == yDate - 25
        yItem(i) == yHeader - line_height - (i - 1) * line_height
        t == calculate_invoice_totals(invoices, items, invoice_id)
        ySubtotal == yItem(n + 1) - 15
        yTax == ySubtotal - line_height
        yDiscount == yTax - line_height
        yTotal == yDiscount - line_height
        head == << Draw(10, yName, <<COMPANY.name>>),
                   Draw(10, yAddress, <<COMPANY.address>>),
                   Draw(10, yPhone, <<COMPANY.phone>>),
                   Draw(10, yNumber, <<"Invoice #", invoice_id>>),
                   Draw(10, yDate, <<"Date: ">>),
                   Draw(10, yHeader, <<"Item">>),
                   Draw(250, yHeader, <<"Qty">>),
                   Draw(320, yHeader, <<"Price">>),
                   Draw(410, yHeader, <<"Total">>) >>
        row(i) == << Draw(10, yItem(i),
                          <<SubSeq(its[i].name, 1, Min(30, Len(its[i].name)))>>),
                     Draw(250, yItem(i), <<its[i].qty>>),
                     Draw(320, yItem(i), <<Fmt2(its[i].price)>>),
                     Draw(410, yItem(i), <<Fmt2(IMul(its[i].qty, its[i].price))>>) >>
        Rows[i \in 0..n] == IF i = 0 THEN <<>> ELSE Rows[i - 1] \o row(i)
        foot == << Draw(320, ySubtotal, <<"Subtotal:">>),
                   Draw(410, ySubtotal, <<Fmt2(t[1])>>),
                   Draw(320, yTax, <<"Tax", invoice.tax_rate>>),
                   Draw(410, yTax, <<Fmt2(t[2])>>),
                   Draw(320, yDiscount, <<"Discount", invoice.discount_rate>>),
                   Draw(410, yDiscount, <<Fmt2(t[3])>>),
                   Draw(320, yTotal, <<"Total:">>),
                   Draw(410, yTotal, <<Fmt2(t[4])>>) >>
    IN  head \o Rows[n] \o foot

export_pdf(invoice_id) ==
    IF ~Exists(invoices, invoice_id)
    THEN Result(invoices, items, NotFound)
    ELSE Result(invoices, items,
                [status |-> 200,
                 download_name |-> <<"invoice_", invoice_id, ".pdf">>,
                 mimetype |-> "application/pdf",
                 pagesize |-> <<page_width,
                                pdf_page_height(Len(ItemsOf(items, invoice_id)))>>,
                 draws |-> pdf_draws(invoice_id)])

-----------------------------------------------------------------------------
(* Requests answered one at a time *)

\* @login_required around a handler's result
Guarded(res) ==
    IF login_required(session) THEN res ELSE Result(invoices, items, Redirect("login"))

Serve(req, res) ==
    /\ request = NoRequest
    /\ request' = req
    /\ before' = [invoices |-> invoices, items |-> items]
    /\ invoices' = res.invoices
    /\ items' = res.items
    /\ response' = res.response

Login ==
    \E cred \in Credentials :
        LET username == Strip(cred.username)
            password == Strip(cred.password)
            found == {u \in User : u.username = username}
            ok == \E u \in found : check_password_hash(u.password_hash, password)
        IN  /\ Serve([op |-> "login", form |-> cred],
                     Result(invoices, items,
                            IF ok THEN Redirect("index") ELSE [status |-> 200]))
            /\ session' = IF ok
                          THEN LET u == CHOOSE u \in found : TRUE
                               IN  [user_id |-> u.id, username |-> u.username]
                          ELSE session
            /\ UNCHANGED <<dbMode, tx, writer>>

Logout ==
    /\ Serve([op |-> "logout"], Guarded(Result(invoices, items, Redirect("login"))))
    /\ session' = IF login_required(session) THEN NoSession ELSE session
    /\ UNCHANGED <<dbMode, tx, writer>>

NewInvoicePost ==
    \E form \in Forms, id \in FreshIds(invoices) :
        /\ Serve([op |-> "new_invoice", form |-> form], Guarded(new_invoice(form, id)))
        /\ UNCHANGED <<session, dbMode, tx, writer>>

EditInvoicePost ==
    \E invoice_id \in InvoiceIds, form \in Forms :
        /\ Serve([op |-> "edit_invoice", invoice_id |-> invoice_id, form |-> form],
                 Guarded(edit_invoice(invoice_id, form)))
        /\ UNCHANGED <<session, dbMode, tx, writer>>

DeleteInvoice ==
    \E invoice_id \in InvoiceIds :
        /\ Serve([op |-> "delete_invoice", invoice_id |-> invoice_id],
                 Guarded(delete_invoice(invoice_id)))
        /\ UNCHANGED <<session, dbMode, tx, writer>>

ExportExcel ==
    \E invoice_id \in InvoiceIds :
        /\ Serve([op |-> "export_excel", invoice_id |-> invoice_id],
                 Guarded(export_excel(invoice_id)))
        /\ UNCHANGED <<session, dbMode, tx, writer>>

ExportPdf ==
    \E invoice_id \in InvoiceIds :
        /\ Serve([op |-> "export_pdf", invoice_id |-> invoice_id],
                 Guarded(export_pdf(invoice_id)))
        /\ UNCHANGED <<session, dbMode, tx, writer>>

\* The response has been sent; the client may send its next request.
Done ==
    /\ request # NoRequest
    /\ request' = NoRequest
    /\ response' = NoResponse
    /\ before' = NoStore
    /\ UNCHANGED <<invoices, items, session, dbMode, tx, writer>>

NoTx == <<>>

Init ==
    /\ invoices = <<>>
    /\ items = <<>>
    /\ session = NoSession
    /\ request = NoRequest
    /\ response = NoResponse
    /\ before = NoStore
    /\ dbMode = "sqlite"
    /\ tx = NoTx
    /\ writer = 0

Next ==
    \/ Login
    \/ Logout
    \/ NewInvoicePost
    \/ EditInvoicePost
    \/ DeleteInvoice
    \/ ExportExcel
    \/ ExportPdf
    \/ Done

Spec == Init /\ [][Next]_vars

-----------------------------------------------------------------------------
(* Two edit requests on the same invoice, statement by statement.            *)
(* The database is whatever DATABASE_URL names.  "sqlite" (the default):     *)
(* the first writing statement of a transaction takes the database write     *)
(* lock and keeps it until commit.  "postgresql" (READ COMMITTED): every     *)
(* statement sees the rows committed when it starts, an UPDATE or DELETE     *)
(* locks the rows it touches until commit, and a statement that meets a row  *)
(* locked by another transaction waits, then skips the row if it is gone.    *)

Editors == {1, 2}
Other(e) == IF e = 1 THEN 2 ELSE 1
DbModes == {"sqlite", "postgresql"}
EditedInvoice == 1

Positions(itms, id) == {p \in 1..Len(itms) : itms[p].invoice_id = id}

\* the rows of itms at positions outside gone, in order
RECURSIVE Keep(_, _, _)
Keep(itms, gone, p) ==
    IF p > Len(itms) THEN <<>>
    ELSE (IF p \in gone THEN <<>> ELSE <<itms[p]>>) \o Keep(itms, gone, p + 1)

\* where the rows at positions ps are once the rows at positions gone are removed
Shifted(ps, gone) == {p - Cardinality({q \in gone : q < p}) : p \in ps \ gone}

HeaderOf(form) ==
    [client_name |-> Strip(FormGet(form.client_name, <<>>)),
     tax_rate |-> FloatField(form.tax_rate).val,
     discount_rate |-> FloatField(form.discount_rate).val]

MayWrite(e) == dbMode = "sqlite" => writer \in {0, e}
Lock(e) == IF dbMode = "sqlite" THEN e ELSE writer

\* invoice = Invoice.query.get_or_404(invoice_id)
TxRead(e) ==
    /\ tx[e].pc = "read"
    /\ Exists(invoices, EditedInvoice)
    /\ tx' = [tx EXCEPT ![e].pc = "assign", ![e].loaded = invoices[EditedInvoice]]
    /\ UNCHANGED <<invoices, items, session, request, response, before, dbMode, writer>>

\* invoice.client_name = ...; tax_rate = float(...); discount_rate = float(...)
TxAssign(e) ==
    /\ tx[e].pc = "assign"
    /\ tx' = [tx EXCEPT ![e].pc =
                 IF FloatField(tx[e].form.tax_rate).ok
                    /\ FloatField(tx[e].form.discount_rate).ok
                 THEN "flush" ELSE "failed"]
    /\ UNCHANGED <<invoices, items, session, request, response, before, dbMode, writer>>

\* The query of the next statement flushes the session first: an UPDATE of the
\* invoice row, emitted only if an attribute differs from the loaded row.
TxFlush(e) ==
    /\ tx[e].pc = "flush"
    /\ IF HeaderOf(tx[e].form) = tx[e].loaded
       THEN /\ tx' = [tx EXCEPT ![e].pc = "delete"]
            /\ UNCHANGED writer
       ELSE /\ MayWrite(e)
            /\ ~tx[Other(e)].updated
            /\ tx' = [tx EXCEPT ![e].pc = "delete", ![e].updated = TRUE]
            /\ writer' = Lock(e)
    /\ UNCHANGED <<invoices, items, session, request, response, before, dbMode>>

\* InvoiceItem.query.filter_by(invoice_id=invoice.id).delete(): the statement
\* starts and finds the committed rows of the invoice
TxDeleteScan(e) ==
    /\ tx[e].pc = "delete"
    /\ MayWrite(e)
    /\ tx' = [tx EXCEPT ![e].pc = "delete_rows",
                        ![e].found = Positions(items, EditedInvoice)]
    /\ writer' = Lock(e)
    /\ UNCHANGED <<invoices, items, session, request, response, before, dbMode>>

\* ... and deletes them once none of them is locked by the other transaction
TxDeleteRows(e) ==
    /\ tx[e].pc = "delete_rows"
    /\ tx[e].found \cap tx[Other(e)].deleted = {}
    /\ tx' = [tx EXCEPT ![e].pc = "insert", ![e].deleted = tx[e].found, ![e].found = {}]
    /\ UNCHANGED <<invoices, items, session, request, response, before, dbMode, writer>>

\* the loop over the submitted rows: db.session.add(item) for each
TxInsert(e) ==
    /\ tx[e].pc = "insert"
    /\ LET f == tx[e].form
           added == AddItems(EditedInvoice, Zip(f.item_name, f.item_qty, f.item_price),
                             1, <<>>)
       IN  tx' = [tx EXCEPT ![e].pc = IF added.ok THEN "commit" ELSE "failed",
                            ![e].inserted = added.items]
    /\ UNCHANGED <<invoices, items, session, request, response, before, dbMode, writer>>

\* db.session.commit(): the INSERTs are flushed and the transaction commits
TxCommit(e) ==
    /\ tx[e].pc = "commit"
    /\ MayWrite(e)
    /\ invoices' = IF tx[e].updated
                   THEN [invoices EXCEPT ![EditedInvoice] = HeaderOf(tx[e].form)]
                   ELSE invoices
    /\ items' = Keep(items, tx[e].deleted, 1) \o tx[e].inserted
    /\ tx' = [tx EXCEPT ![e].pc = "done", ![e].updated = FALSE, ![e].deleted = {},
                        ![e].inserted = <<>>,
                        ![Other(e)].found = Shifted(tx[Other(e)].found, tx[e].deleted),
                        ![Other(e)].deleted = Shifted(tx[Other(e)].deleted, tx[e].deleted)]
    /\ writer' = IF dbMode = "sqlite" THEN 0 ELSE writer
    /\ UNCHANGED <<session, request, response, before, dbMode>>

\* An uncaught ValueError: the session is rolled back as the request ends.
TxRollback(e) ==
    /\ tx[e].pc = "failed"
    /\ tx' = [tx EXCEPT ![e].pc = "aborted", ![e].updated = FALSE, ![e].found = {},
                        ![e].deleted = {}, ![e].inserted = <<>>]
    /\ writer' = IF writer = e THEN 0 ELSE writer
    /\ UNCHANGED <<invoices, items, session, request, response, before, dbMode>>

\* What each editor may submit: editor 1 one row, editor 2 another row or a
\* row that does not parse.
EditorRows(e) ==
    IF e = 1
    THEN { << [name |-> <<" ", "W">>, qty |-> <<"2">>, price |-> <<"5", ".", "0">>] >> }
    ELSE { << [name |-> <<"G", " ">>, qty |-> <<" ", "1">>,
               price |-> <<"9", ".", "9", "9">>] >>,
           << [name |-> <<"G">>, qty |-> <<"1">>, price |-> <<"1", "e">>] >> }

EditorForms(e) == {MakeForm(h, rows, "none") : h \in HeaderInputs, rows \in EditorRows(e)}

\* The invoice both editors open, as new_invoice stored it: without rows or
\* with one row.
StoredItems ==
    { <<>>,
      << [invoice_id |-> EditedInvoice, name |-> <<"W">>, qty |-> 2, price |-> 5 * Scale] >> }

InitConc ==
    /\ invoices = << [client_name |-> <<"A">>, tax_rate |-> 0, discount_rate |-> 0] >>
    /\ items \in StoredItems
    /\ session = [user_id |-> 1, username |-> DefaultUsername]
    /\ request = NoRequest
    /\ response = NoResponse
    /\ before = NoStore
    /\ dbMode \in DbModes
    /\ \E f1 \in EditorForms(1), f2 \in EditorForms(2) :
          tx = [e \in Editors |->
                  [pc |-> "read", form |-> IF e = 1 THEN f1 ELSE f2,
                   loaded |-> <<>>, updated |-> FALSE, found |-> {}, deleted |-> {},
                   inserted |-> <<>>]]
    /\ writer = 0

NextConc ==
    \E e \in Editors :
        \/ TxRead(e)
        \/ TxAssign(e)
        \/ TxFlush(e)
        \/ TxDeleteScan(e)
        \/ TxDeleteRows(e)
        \/ TxInsert(e)
        \/ TxCommit(e)
        \/ TxRollback(e)

SpecConc == InitConc /\ [][NextConc]_vars

-----------------------------------------------------------------------------
(* What a request was meant to do, stated without the handlers' own          *)
(* conversions: the values of the submitted texts are read from tables.      *)

QtyTable == { << <<"2">>, 2 >>, << <<" ", "1">>, 1 >>, << <<"1">>, 1 >> }
PriceTable == { << <<"5", ".", "0">>, 5 * Scale >>,
                << <<"9", ".", "9", "9">>, 999 * (Scale \div 100) >> }
RateTable == { << <<"1", "0">>, 10 * Scale >>, << <<" ", "5">>, 5 * Scale >>,
               << <<"5">>, 5 * Scale >> }

Known(table, s) == \E p \in table : p[1] = s
ValueIn(table, s) == (CHOOSE p \in table : p[1] = s)[2]

NonBlankChars(s) == SelectSeq(s, LAMBDA c : c # " ")

Shortest(form) ==
    CHOOSE n \in {Len(form.item_name), Len(form.item_qty), Len(form.item_price)} :
        /\ n <= Len(form.item_name) /\ n <= Len(form.item_qty) /\ n <= Len(form.item_price)

\* the positions below the shortest array whose name is not blank, ascending
NamedPositions(form) ==
    SelectSeq([i \in 1..Shortest(form) |-> i],
              LAMBDA i : NonBlankChars(form.item_name[i]) # <<>>)

RowsWellFormed(form) ==
    \A k \in 1..Len(NamedPositions(form)) :
        LET i == NamedPositions(form)[k]
        IN  Known(QtyTable, form.item_qty[i]) /\ Known(PriceTable, form.item_price[i])

RateWellFormed(field) == field = <<>> \/ Known(RateTable, field[1])
RatesWellFormed(form) ==
    RateWellFormed(form.tax_rate) /\ RateWellFormed(form.discount_rate)
ExpectedItems(id, form) ==
    [k \in 1..Len(NamedPositions(form)) |->
        LET i == NamedPositions(form)[k]
        IN  [invoice_id |-> id,
             name |-> NonBlankChars(form.item_name[i]),
             qty |-> ValueIn(QtyTable, form.item_qty[i]),
             price |-> ValueIn(PriceTable, form.item_price[i])]]

LoggedIn == "user_id" \in DOMAIN session
Succeeded == response = [status |-> 302, location |-> "index"]
StoreUnchanged == invoices = before.invoices /\ items = before.items
RowsOf(itms, id) == SelectSeq(itms, LAMBDA r : r.invoice_id = id)
Last(seq) == seq[Len(seq)]

RECURSIVE SumLines(_)
SumLines(rows) ==
    IF rows = <<>> THEN 0 ELSE Head(rows).qty * Head(rows).price + SumLines(Tail(rows))

IsExport(op) == request.op = op /\ response.status = 200

\* the four values of the last four rows of the sheet
ExcelTotals == [k \in 1..4 |-> Last(response.sheet[Len(response.sheet) - 4 + k])]
\* the four figures of the totals block of the page, in hundredths
PdfTotals == [k \in 1..4 |-> response.draws[Len(response.draws) - 8 + 2 * k].text[1]]

\* The four totals the formulas of the data model give for invoice id of the
\* store; the two rate products have no remainder for the rates drawn here.
StoreTotals(id) ==
    LET subtotal == SumLines(RowsOf(items, id))
        tax_amount == (subtotal * (invoices[id].tax_rate \div 100)) \div Scale
        discount_amount == (subtotal * (invoices[id].discount_rate \div 100)) \div Scale
    IN  <<subtotal, tax_amount, discount_amount, subtotal + tax_amount - discount_amount>>

StoreTotalsExact(id) ==
    LET subtotal == SumLines(RowsOf(items, id))
    IN  /\ invoices[id].tax_rate % 100 = 0
        /\ invoices[id].discount_rate % 100 = 0
        /\ (subtotal * (invoices[id].tax_rate \div 100)) % Scale = 0
        /\ (subtotal * (invoices[id].discount_rate \div 100)) % Scale = 0

Hundredth == Scale \div 100
\* p hundredths is a nearest two-decimal figure of the value v
NearestHundredth(p, v) ==
    /\ 2 * (p * Hundredth - v) <= Hundredth
    /\ 2 * (v - p * Hundredth) <= Hundredth

-----------------------------------------------------------------------------
(* C1 (as amended): the spreadsheet reports the four totals exactly as the   *)
(* formulas give them for the invoice's current rows and rates; the PDF      *)
(* reports each of the same four values rounded to two decimals.             *)
C1_TotalsFromCurrentStore ==
    /\ IsExport("export_excel") =>
          /\ StoreTotalsExact(request.invoice_id)
          /\ ExcelTotals = StoreTotals(request.invoice_id)
    /\ IsExport("export_pdf") =>
          /\ StoreTotalsExact(request.invoice_id)
          /\ \A k \in 1..4 :
                NearestHundredth(PdfTotals[k], StoreTotals(request.invoice_id)[k])

\* a PDF of an invoice with two rows whose tax amount has a third decimal
C1_Witness ==
    /\ IsExport("export_pdf")
    /\ Len(RowsOf(items, request.invoice_id)) = 2
    /\ invoices[request.invoice_id].tax_rate > 0
    /\ PdfTotals[2] * Hundredth # StoreTotals(request.invoice_id)[2]

\* C1 as stated: both exports report the four values of the formulas themselves
C1_BothExportsExact ==
    /\ IsExport("export_excel") => ExcelTotals = StoreTotals(request.invoice_id)
    /\ IsExport("export_pdf") =>
          [k \in 1..4 |-> PdfTotals[k] * Hundredth] = StoreTotals(request.invoice_id)

(* C2: every line-item row references an invoice of the store, and after a   *)
(* successful delete_invoice(X) neither X nor a row of X is left.            *)
C2_NoOrphanRows ==
    /\ \A i \in 1..Len(items) : items[i].invoice_id \in DOMAIN invoices
    /\ (request.op = "delete_invoice" /\ Succeeded) =>
          /\ request.invoice_id \notin DOMAIN invoices
          /\ RowsOf(items, request.invoice_id) = <<>>

\* a delete of an invoice that had rows, with another invoice's rows left
C2_Witness ==
    /\ request.op = "delete_invoice" /\ Succeeded
    /\ RowsOf(before.items, request.invoice_id) # <<>>
    /\ items # <<>>

(* C3 as stated: a create request that fails on a malformed qty or price of  *)
(* a named row leaves the store as it was.                                   *)
C3_FailedCreateLeavesStore ==
    (/\ request.op = "new_invoice" /\ response.status = 500
     /\ RatesWellFormed(request.form) /\ ~RowsWellFormed(request.form))
    => StoreUnchanged

(* C4: after a successful edit of X the rows of X are the named rows of the  *)
(* request, and every other invoice keeps its client name, rates and rows.   *)
C4_EditReplacesOnlyX ==
    (request.op = "edit_invoice" /\ Succeeded) =>
        LET X == request.invoice_id
        IN  /\ RowsOf(items, X) = ExpectedItems(X, request.form)
            /\ DOMAIN invoices = DOMAIN before.invoices
            /\ \A id \in DOMAIN invoices \ {X} :
                  /\ invoices[id] = before.invoices[id]
                  /\ RowsOf(items, id) = RowsOf(before.items, id)

\* an edit that replaced the rows X had, beside another invoice with rows
C4_Witness ==
    /\ request.op = "edit_invoice" /\ Succeeded
    /\ RowsOf(before.items, request.invoice_id) # <<>>
    /\ RowsOf(items, request.invoice_id) # <<>>
    /\ RowsOf(items, request.invoice_id) # RowsOf(before.items, request.invoice_id)
    /\ \E id \in DOMAIN invoices \ {request.invoice_id} : RowsOf(items, id) # <<>>

(* C5: a create or edit request with well-formed rates succeeds exactly when *)
(* every named row below the shortest array is well formed (blank-named rows *)
(* are not parsed), and then the rows persisted for the invoice are those    *)
(* named rows, trimmed and converted, in submission order.                   *)
C5_PersistedRows ==
    /\ (request.op = "new_invoice" /\ LoggedIn /\ RatesWellFormed(request.form)) =>
          /\ Succeeded <=> RowsWellFormed(request.form)
          /\ Succeeded =>
                \E id \in DOMAIN invoices \ DOMAIN before.invoices :
                    RowsOf(items, id) = ExpectedItems(id, request.form)
    /\ (/\ request.op = "edit_invoice" /\ LoggedIn /\ RatesWellFormed(request.form)
        /\ request.invoice_id \in DOMAIN before.invoices) =>
          /\ Succeeded <=> RowsWellFormed(request.form)
          /\ Succeeded =>
                RowsOf(items, request.invoice_id)
                    = ExpectedItems(request.invoice_id, request.form)

\* a create whose first row is blank-named with a qty and price that do not
\* parse and whose second row is persisted
C5_Witness ==
    /\ request.op = "new_invoice" /\ Succeeded
    /\ Len(request.form.item_name) = 2
    /\ NonBlankChars(request.form.item_name[1]) = <<>>
    /\ ~Known(QtyTable, request.form.item_qty[1])
    /\ \E id \in DOMAIN invoices \ DOMAIN before.invoices : Len(RowsOf(items, id)) = 1

(* C6: an export request without a session is redirected to login; with a   *)
(* session it is not-found for an id that is not in the store and the        *)
(* attachment invoice_{id}.xlsx / .pdf otherwise; the store is unchanged.    *)
C6_ExportOutcomes ==
    \A op \in {"export_excel", "export_pdf"} :
        request.op = op =>
            /\ StoreUnchanged
            /\ ~LoggedIn => response = [status |-> 302, location |-> "login"]
            /\ (LoggedIn /\ request.invoice_id \notin DOMAIN invoices) =>
                  response = [status |-> 404]
            /\ (LoggedIn /\ request.invoice_id \in DOMAIN invoices) =>
                  /\ response.status = 200
                  /\ response.download_name =
                        <<"invoice_", request.invoice_id,
                          IF op = "export_excel" THEN ".xlsx" ELSE ".pdf">>

\* an export of an existing invoice asked for without a session
C6_Witness ==
    /\ request.op = "export_pdf"
    /\ ~LoggedIn
    /\ request.invoice_id \in DOMAIN invoices
    /\ response.status = 302

(* C7 as stated: when both concurrent edits of the invoice have committed,   *)
(* its rows are the rows submitted by one of the two editors.                *)
C7_NoMixedItems ==
    (\A e \in Editors : tx[e].pc = "done") =>
        \E e \in Editors : RowsOf(items, EditedInvoice) = ExpectedItems(EditedInvoice, tx[e].form)

(* C8 (as amended): the sheet has 7 fixed rows (three company rows, a blank, *)
(* the invoice row, a blank, the column header), n item rows, a blank row    *)
(* and 4 totals rows: n + 12 rows, the Total row last.                       *)
C8_SheetRows ==
    IsExport("export_excel") =>
        LET n == Len(RowsOf(items, request.invoice_id))
            sheet == response.sheet
        IN  /\ Len(sheet) = n + 12
            /\ sheet[4] = <<>> /\ sheet[6] = <<>> /\ sheet[n + 8] = <<>>
            /\ sheet[7] = <<"Item", "Qty", "Price", "Subtotal">>
            /\ \A i \in 1..n : sheet[7 + i][1] = RowsOf(items, request.invoice_id)[i].name
            /\ sheet[Len(sheet)][3] = "Total"

\* a sheet of an invoice with two rows
C8_Witness ==
    /\ IsExport("export_excel")
    /\ Len(RowsOf(items, request.invoice_id)) = 2

\* C8 as stated: n + 11 rows
C8_ElevenFixedRows ==
    IsExport("export_excel") =>
        Len(response.sheet) = Len(RowsOf(items, request.invoice_id)) + 11

(* C9: the page height is 30 + 120 + n*18 + 90 + 40 and every text of the    *)
(* page (9 header texts, 4 per item, 8 in the totals block) is drawn at a y  *)
(* of at most page height - 30 and at least 40.                              *)
C9_PdfWithinPage ==
    IsExport("export_pdf") =>
        LET n == Len(RowsOf(items, request.invoice_id))
            h == response.pagesize[2]
            draws == response.draws
        IN  /\ h = 30 + 120 + n * 18 + 90 + 40
            /\ Len(draws) = 9 + 4 * n + 8
            /\ \A i \in 1..Len(draws) : draws[i].y <= h - 30 /\ draws[i].y >= 40

\* a page of an invoice with at least two rows
C9_Witness ==
    /\ IsExport("export_pdf")
    /\ Len(RowsOf(items, request.invoice_id)) >= 2

(* C10: an edit of an existing invoice whose rates or named rows are         *)
(* malformed fails and leaves the committed store as it was.                 *)
C10_FailedEditLeavesStore ==
    (/\ request.op = "edit_invoice" /\ LoggedIn
     /\ request.invoice_id \in DOMAIN before.invoices
     /\ (~RatesWellFormed(request.form) \/ ~RowsWellFormed(request.form)))
    => (response.status = 500 /\ StoreUnchanged)

\* a failed edit of an invoice with rows, whose first submitted row is well
\* formed and whose second is not
C10_Witness ==
    /\ request.op = "edit_invoice" /\ response.status = 500
    /\ RowsOf(before.items, request.invoice_id) # <<>>
    /\ RatesWellFormed(request.form)
    /\ Len(NamedPositions(request.form)) = 2
    /\ Known(QtyTable, request.form.item_qty[1])
    /\ Known(PriceTable, request.form.item_price[1])
    /\ ~Known(PriceTable, request.form.item_price[2])

====
